---------------------------- MODULE Spec2Model ----------------------------
(***************************************************************************)
(* The allergy-card request handlers of JaylenPg/allergy-card.             *)
(*                                                                         *)
(* The repository holds six variants of one serverless handler:            *)
(*   "api"   src/api/render-and-email.mjs      canvas image, mail API      *)
(*   "p000a" src/unnamed/part_000 lines 1-184  text card, SMTP with verify *)
(*   "p000b" src/unnamed/part_000 lines 186-295 text card, SMTP            *)
(*   "p001"  src/unnamed/part_001              SVG overlay, SMTP           *)
(*   "p002"  src/unnamed/part_002              text card, SMTP             *)
(*   "p003"  src/unnamed/part_003              canvas image, upload, API   *)
(* One request is followed from its arrival to its response; every await   *)
(* of the code is a step of its own, whose outcome the environment chooses.*)
(* Text that the code inspects character by character (allergen tokens,    *)
(* language codes, names) is a sequence of one-character strings.          *)
(***************************************************************************)
EXTENDS Naturals, Sequences, FiniteSets, TLC

\* ------------------------------------------------------------------ bounds
\* longest list of raw allergen tokens a request body carries
MaxTokens == 2

\* ------------------------------------------------------------ text helpers
\* the characters /\s/ matches
Whitespace == {" "}

UpperChars == <<"A","B","C","D","E","F","G","H","I","J","K","L","M",
                "N","O","P","Q","R","S","T","U","V","W","X","Y","Z">>
LowerChars == <<"a","b","c","d","e","f","g","h","i","j","k","l","m",
                "n","o","p","q","r","s","t","u","v","w","x","y","z">>

toLowerChar(c) ==
    IF \E i \in 1..26 : UpperChars[i] = c
    THEN LowerChars[CHOOSE i \in 1..26 : UpperChars[i] = c]
    ELSE c

toUpperChar(c) ==
    IF \E i \in 1..26 : LowerChars[i] = c
    THEN UpperChars[CHOOSE i \in 1..26 : LowerChars[i] = c]
    ELSE c

\* String.prototype.toLowerCase
toLowerCase(s) == [i \in 1..Len(s) |-> toLowerChar(s[i])]

\* String.prototype.toUpperCase
toUpperCase(s) == [i \in 1..Len(s) |-> toUpperChar(s[i])]

RECURSIVE trimStart(_)
trimStart(s) ==
    IF s # <<>> /\ Head(s) \in Whitespace THEN trimStart(Tail(s)) ELSE s

RECURSIVE trimEnd(_)
trimEnd(s) ==
    IF s # <<>> /\ s[Len(s)] \in Whitespace
    THEN trimEnd(SubSeq(s, 1, Len(s) - 1))
    ELSE s

\* String.prototype.trim
trim(s) == trimEnd(trimStart(s))

\* s.replace(/\s+/g, "_"): every maximal run of whitespace becomes one "_"
RECURSIVE replaceWhitespace(_)
replaceWhitespace(s) ==
    IF s = <<>> THEN <<>>
    ELSE IF Head(s) \in Whitespace
         THEN <<"_">> \o replaceWhitespace(trimStart(s))
         ELSE <<Head(s)>> \o replaceWhitespace(Tail(s))

\* s.replace(/_/g, " ")
replaceUnderscores(s) == [i \in 1..Len(s) |-> IF s[i] = "_" THEN " " ELSE s[i]]

\* s.split(","): the pieces between commas; "" splits into one empty piece
RECURSIVE splitComma(_)
splitComma(s) ==
    IF \E i \in 1..Len(s) : s[i] = ","
    THEN LET i == CHOOSE j \in 1..Len(s) :
                      s[j] = "," /\ \A k \in 1..(j - 1) : s[k] # ","
         IN  <<SubSeq(s, 1, i - 1)>> \o splitComma(SubSeq(s, i + 1, Len(s)))
    ELSE <<s>>

\* list.join(sep)
RECURSIVE join(_, _)
join(list, sep) ==
    IF list = <<>> THEN <<>>
    ELSE IF Len(list) = 1 THEN list[1]
         ELSE list[1] \o sep \o join(Tail(list), sep)

\* s.startsWith(p)
startsWith(s, p) == Len(s) >= Len(p) /\ SubSeq(s, 1, Len(p)) = p

\* list.includes(v)
includes(list, v) == \E i \in 1..Len(list) : list[i] = v

\* the elements of a list, as a set
Range(list) == {list[i] : i \in 1..Len(list)}

\* list.filter(Boolean) on a list of strings: the empty string is falsy
RECURSIVE filterBoolean(_)
filterBoolean(list) ==
    IF list = <<>> THEN <<>>
    ELSE IF Head(list) = <<>> THEN filterBoolean(Tail(list))
         ELSE <<Head(list)>> \o filterBoolean(Tail(list))

\* ------------------------------------------------------------ fixed texts
NAME_LABEL ==
    <<"N","a","m","e",":"," ">>

ALLERGIC_LABEL ==
    <<"I"," ","a","m"," ","s","e","v","e","r","e","l","y"," ","a","l","l","e",
      "r","g","i","c"," ","t","o",":"," ">>

NONE_SPECIFIED ==
    <<"N","o","n","e"," ","s","p","e","c","i","f","i","e","d">>

INSTRUCTION ==
    <<"P","l","e","a","s","e"," ","D","O"," ","N","O","T"," ","s","e","r","v",
      "e"," ","m","e"," ","f","o","o","d"," ","c","o","n","t","a","i","n",
      "i","n","g"," ","t","h","e","s","e"," ","a","l","l","e","r","g","e",
      "n","s",".">>

CONTACT_LABEL ==
    <<"E","m","e","r","g","e","n","c","y"," ","C","o","n","t","a","c","t",":",
      " ">>

LANGUAGE_LABEL ==
    <<"L","a","n","g","u","a","g","e",":"," ">>

NOT_GENERATED ==
    <<"A","l","l","e","r","g","y"," ","c","a","r","d"," ","c","o","u","l","d",
      " ","n","o","t"," ","b","e"," ","g","e","n","e","r","a","t","e","d",
      ".">>

SUBJECT_PREFIX ==
    <<"A","l","l","e","r","g","y"," ","C","a","r","d"," ","f","o","r"," ">>

PROMPT_NONE ==
    <<"n","o","n","e">>

SEVERAL_FOODS ==
    <<"s","e","v","e","r","a","l"," ","f","o","o","d","s">>

NAME_NOT_PROVIDED ==
    <<"N","a","m","e"," ","n","o","t"," ","p","r","o","v","i","d","e","d">>

NOT_AVAILABLE ==
    <<"N","/","A">>

EMERGENCY_EN ==
    <<"E","m","e","r","g","e","n","c","y"," ","C","o","n","t","a","c","t",":">>

EMERGENCY_FR ==
    <<"C","o","n","t","a","c","t"," ","d","'","u","r","g","e","n","c","e"," ",
      ":">>

EMERGENCY_ES ==
    <<"C","o","n","t","a","c","t","o"," ","d","e"," ","e","m","e","r","g","e",
      "n","c","i","a",":">>

EMERGENCY_PT ==
    <<"C","o","n","t","a","c","t","o"," ","d","e"," ","e","m","e","r","g","e",
      "n","c","i","a",":">>

EMERGENCY_ZH ==
    <<"J","i","n","j","i"," ","l","i","a","n","x","i","r","e","n",":">>

SUBJECT_EN ==
    <<"Y","o","u","r"," ","A","l","l","e","r","g","y"," ","C","a","r","d">>

SUBJECT_FR ==
    <<"V","o","t","r","e"," ","c","a","r","t","e"," ","d","'","a","l","l","e",
      "r","g","i","e","s">>

SUBJECT_ES ==
    <<"T","u"," ","t","a","r","j","e","t","a"," ","d","e"," ","a","l","e","r",
      "g","i","a","s">>

SUBJECT_PT ==
    <<"S","e","u"," ","c","a","r","t","a","o"," ","d","e"," ","a","l","e","r",
      "g","i","a","s">>

SUBJECT_ZH ==
    <<"G","u","o","m","i","n"," ","k","a"," ","y","i"," ","s","h","e","n","g",
      "c","h","e","n","g">>

SUBJECT_ZH_TEXT ==
    <<"N","i","n"," ","d","e"," ","g","u","o","m","i","n"," ","k","a">>

HI ==
    <<"H","i"," ">>

THERE ==
    <<"t","h","e","r","e">>

READY_EN ==
    <<","," ","y","o","u","r"," ","a","l","l","e","r","g","y"," ","c","a","r",
      "d"," ","i","s"," ","r","e","a","d","y",".">>

BONJOUR ==
    <<"B","o","n","j","o","u","r"," ">>

READY_FR ==
    <<","," ","v","o","t","r","e"," ","c","a","r","t","e"," ","d","'","a","l",
      "l","e","r","g","i","e","s"," ","e","s","t"," ","p","r","e","t","e",
      ".">>

HOLA ==
    <<"H","o","l","a"," ">>

READY_ES ==
    <<","," ","t","u"," ","t","a","r","j","e","t","a"," ","d","e"," ","a","l",
      "e","r","g","i","a","s"," ","e","s","t","a"," ","l","i","s","t","a",
      ".">>

OLA ==
    <<"O","l","a"," ">>

READY_PT ==
    <<","," ","s","e","u"," ","c","a","r","t","a","o"," ","d","e"," ","a","l",
      "e","r","g","i","a","s"," ","e","s","t","a"," ","p","r","o","n","t",
      "o",".">>

READY_ZH ==
    <<"N","i","n"," ","d","e"," ","g","u","o","m","i","n"," ","k","a"," ","y",
      "i"," ","s","h","e","n","g","c","h","e","n","g",".">>

AMP ==
    <<"&","a","m","p",";">>

LT ==
    <<"&","l","t",";">>

GT ==
    <<"&","g","t",";">>

DIV_OPEN ==
    <<"<","d","i","v",">">>

DIV_CLOSE ==
    <<"<","/","d","i","v",">">>

P_OPEN ==
    <<"<","p",">">>

P_CLOSE ==
    <<"<","/","p",">">>

PRE_OPEN ==
    <<"<","p","r","e",">">>

PRE_CLOSE ==
    <<"<","/","p","r","e",">">>

A_OPEN ==
    <<"<","a"," ","h","r","e","f","=","\"">>

A_MID ==
    <<"\"",">","V","i","e","w"," ","/"," ","d","o","w","n","l","o","a","d"," ",
      "t","h","e"," ","i","m","a","g","e","<","/","a",">">>

SECURE_URL ==
    <<"h","t","t","p","s",":","/","/","r","e","s",".","c","l","o","u","d","i",
      "n","a","r","y",".","c","o","m","/","c",".","p","n","g">>

RECIPIENT ==
    <<"a","@","b",".","c","o","m">>

JO ==
    <<"J","o">>

CONTACT ==
    <<"A","l">>

PHONE ==
    <<"5","5","5">>

CARD_TEXT ==
    <<"C","a","r","t","e",":"," ","o","e","u","f","s">>

NAME_MARKUP ==
    <<"A","&","<","b",">">>

LANG_FR_UPPER ==
    <<"F","R">>

LANG_FR_SPACED ==
    <<" ","f","r">>

LANG_DE ==
    <<"d","e">>

LANG_CONSTRUCTOR ==
    <<"c","o","n","s","t","r","u","c","t","o","r">>

PROTO ==
    <<"_","_","p","r","o","t","o","_","_">>

RAW_EGGS_CAP ==
    <<"E","g","g","s">>

RAW_SOY_SPACED ==
    <<" ","s","o","y"," ">>

RAW_TREE_NUTS ==
    <<"t","r","e","e"," ","n","u","t","s">>

RAW_GLUTEN ==
    <<"g","l","u","t","e","n">>

RAW_DAIRY ==
    <<"D","a","i","r","y"," ">>

DASH ==
    <<" ","-"," ">>

COMMA_SPACE ==
    <<","," ">>

\* --------------------------------------------------------------- vocabulary
EGGS      == <<"e","g","g","s">>
DAIRY     == <<"d","a","i","r","y">>
PEANUTS   == <<"p","e","a","n","u","t","s">>
TREE_NUTS == <<"t","r","e","e","_","n","u","t","s">>
SHELLFISH == <<"s","h","e","l","l","f","i","s","h">>
SOY       == <<"s","o","y">>

KNOWN_ALLERGENS == <<EGGS, DAIRY, PEANUTS, TREE_NUTS, SHELLFISH, SOY>>

\* Object.keys(marks): the tags of the marker layout, in layout order
marks == <<EGGS, DAIRY, PEANUTS, TREE_NUTS, SHELLFISH, SOY>>

EN == <<"e","n">>
FR == <<"f","r">>
ES == <<"e","s">>
PT == <<"p","t">>
ZH == <<"z","h">>

SUPPORTED_LANGS == <<EN, FR, ES, PT, ZH>>

\* the prefix of a checkbox field's key
ALLERGENS_PREFIX == <<"a","l","l","e","r","g","e","n","s","_">>

\* the module-level tables of the process: the keys of LANGS and the marker
\* layout, built once when the module is loaded
VARIABLE shared

Tables == [LANGS |-> SUPPORTED_LANGS, marks |-> marks]

\* ------------------------------------------------------------- normalizers
\* the per-item normalization of the array and string branches
normalizeItem(s) == replaceWhitespace(toLowerCase(trim(s)))

\* list.map(normalizeItem)
normalizeItems(list) == [i \in 1..Len(list) |-> normalizeItem(list[i])]

isKnown(v) == includes(KNOWN_ALLERGENS, v)

\* the keys of the body that start with "allergens_" and hold a truthy value,
\* with the prefix removed and lower-cased
fromCheckboxes(body) ==
    LET on(f)    == startsWith(f.key, ALLERGENS_PREFIX) /\ f.val
        strip(f) == toLowerCase(SubSeq(f.key, Len(ALLERGENS_PREFIX) + 1, Len(f.key)))
        checked  == SelectSeq(body.fields, on)
    IN  [i \in 1..Len(checked) |-> strip(checked[i])]

normalizeAllergensFromBody(body) ==
    LET direct == body.allergens
        normArray  == IF direct.shape = "array"
                      THEN SelectSeq(normalizeItems(direct.val), isKnown)
                      ELSE <<>>
        normString == IF direct.shape = "string"
                      THEN SelectSeq(normalizeItems(splitComma(direct.val)), isKnown)
                      ELSE <<>>
        boxes      == fromCheckboxes(body)
    IN  IF normArray # <<>> THEN normArray
        ELSE IF normString # <<>> THEN normString
        ELSE SelectSeq([i \in 1..Len(boxes) |-> replaceWhitespace(boxes[i])], isKnown)

normalizeLanguage(lang) ==
    LET v == toLowerCase(trim(lang))
    IN  IF includes(SUPPORTED_LANGS, v) THEN v ELSE EN

\* the allergens handling of the image handlers: a string is split, trimmed and
\* lower-cased; an array is taken as it is; checkbox fields are not read
splitAllergens(body) ==
    LET a == body.allergens
        pieces == splitComma(a.val)
    IN  IF a.shape = "string"
        THEN filterBoolean([i \in 1..Len(pieces) |-> toLowerCase(trim(pieces[i]))])
        ELSE IF a.shape = "array" THEN a.val
        ELSE <<>>

\* buildPrompt's list: an array as it is, a string split and trimmed only
promptList(body) ==
    LET a == body.allergens
        pieces == splitComma(a.val)
    IN  IF a.shape = "array" THEN a.val
        ELSE IF a.shape = "string"
        THEN filterBoolean([i \in 1..Len(pieces) |-> trim(pieces[i])])
        ELSE <<>>

\* marks[key]: the coordinate of a layout entry
markPosition(k) ==
    CASE k = EGGS      -> [x |-> 170, y |-> 250]
      [] k = DAIRY     -> [x |-> 520, y |-> 250]
      [] k = PEANUTS   -> [x |-> 870, y |-> 250]
      [] k = TREE_NUTS -> [x |-> 170, y |-> 380]
      [] k = SHELLFISH -> [x |-> 520, y |-> 380]
      [] k = SOY       -> [x |-> 870, y |-> 380]

\* a loop over the list's entries instead of the layout's keys: a repeated
\* tag is marked once per occurrence
drawMarksPerEntry(list) ==
    LET present == SelectSeq(list, LAMBDA k : includes(marks, k))
    IN  [i \in 1..Len(present) |->
            [key |-> present[i], x |-> markPosition(present[i]).x,
             y |-> markPosition(present[i]).y]]

\* the X-mark loop: for each layout key that the list includes, one mark at
\* the key's coordinate
drawMarks(list) ==
    LET present == SelectSeq(shared.marks, LAMBDA k : includes(list, k))
    IN  [i \in 1..Len(present) |->
            [key |-> present[i], x |-> markPosition(present[i]).x,
             y |-> markPosition(present[i]).y]]

\* ------------------------------------------------- language profiles (LANGS)
\* (accented letters and the Chinese strings are written in ASCII)
emergency(L) ==
    CASE L = FR -> EMERGENCY_FR
      [] L = ES -> EMERGENCY_ES
      [] L = PT -> EMERGENCY_PT
      [] L = ZH -> EMERGENCY_ZH
      [] OTHER  -> EMERGENCY_EN

subject(L) ==
    CASE L = FR -> SUBJECT_FR
      [] L = ES -> SUBJECT_ES
      [] L = PT -> SUBJECT_PT
      [] L = ZH -> SUBJECT_ZH
      [] OTHER  -> SUBJECT_EN

emailLine(L, n) ==
    CASE L = FR -> BONJOUR \o n \o READY_FR
      [] L = ES -> HOLA \o n \o READY_ES
      [] L = PT -> OLA \o n \o READY_PT
      [] L = ZH -> READY_ZH
      [] OTHER  -> HI \o (IF n # <<>> THEN n ELSE THERE) \o READY_EN

\* the names an object literal inherits: LANGS[key] is truthy for them too
InheritedKeys == {LANG_CONSTRUCTOR, PROTO}

\* LANGS[language] ? language : "en", on the lower-cased value
selectLanguage(language) ==
    LET l == toLowerCase(IF language # <<>> THEN language ELSE EN)
    IN  IF includes(SUPPORTED_LANGS, l) \/ l \in InheritedKeys THEN l ELSE EN

\* LANGS[L].template is defined only for the five profiles
hasTemplate(L) == includes(shared.LANGS, L)

\* SUPPORTED.has(lower) ? lower : "en"
supportedOrEn(language) ==
    LET l == toLowerCase(language)
    IN  IF includes(SUPPORTED_LANGS, l) THEN l ELSE EN

\* subjectMap[L] || subjectMap.en
subjectMap(L) == IF L = ZH THEN SUBJECT_ZH_TEXT ELSE subject(L)

\* ------------------------------------------------------------- card content
\* a fallback card that parenthesizes the phone without testing it
fallbackCardUnguarded(clean) ==
    join(<< NAME_LABEL \o clean.name,
            ALLERGIC_LABEL \o (IF clean.allergens # <<>>
                               THEN replaceUnderscores(join(clean.allergens, COMMA_SPACE))
                               ELSE NONE_SPECIFIED),
            INSTRUCTION,
            trim(CONTACT_LABEL \o clean.contact_name \o <<" ", "(">>
                 \o clean.contact_phone \o <<")">>),
            LANGUAGE_LABEL \o toUpperCase(clean.language) >>, <<"\n">>)

fallbackCard(clean) ==
    LET allergenList ==
            IF clean.allergens # <<>>
            THEN replaceUnderscores(join(clean.allergens, COMMA_SPACE))
            ELSE NONE_SPECIFIED
        phone == IF clean.contact_phone # <<>>
                 THEN <<"(">> \o clean.contact_phone \o <<")">>
                 ELSE <<>>
        lines == << NAME_LABEL \o clean.name,
                    ALLERGIC_LABEL \o allergenList,
                    INSTRUCTION,
                    trim(CONTACT_LABEL \o clean.contact_name \o <<" ">> \o phone),
                    LANGUAGE_LABEL \o toUpperCase(clean.language) >>
    IN  join(lines, <<"\n">>)

\* the fields generateCardWithAI interpolates into its prompt
cardPrompt(clean) ==
    [ language  |-> clean.language,
      name      |-> clean.name,
      allergens |-> IF clean.allergens # <<>>
                    THEN replaceUnderscores(join(clean.allergens, COMMA_SPACE))
                    ELSE PROMPT_NONE,
      contact   |-> clean.contact_name \o
                    (IF clean.contact_phone # <<>>
                     THEN <<" ", "(">> \o clean.contact_phone \o <<")">>
                     ELSE <<>>) ]

\* the fields buildPrompt interpolates into its prompt
buildPrompt(body) ==
    LET list == promptList(body)
    IN  [ language  |-> supportedOrEn(body.language),
          name      |-> IF body.name # <<>> THEN body.name ELSE NAME_NOT_PROVIDED,
          allergens |-> IF list # <<>> THEN join(list, COMMA_SPACE) ELSE SEVERAL_FOODS,
          contact   |-> (IF body.contact_name # <<>> THEN body.contact_name
                         ELSE NOT_AVAILABLE)
                        \o DASH \o
                        (IF body.contact_phone # <<>> THEN body.contact_phone
                         ELSE NOT_AVAILABLE) ]

\* s.replace(/c/g, rep) for a single character c
RECURSIVE replaceChar(_, _, _)
replaceChar(s, c, rep) ==
    IF s = <<>> THEN <<>>
    ELSE IF Len(s) = 1 THEN (IF s[1] = c THEN rep ELSE s)
    ELSE LET h == Len(s) \div 2
         IN  replaceChar(SubSeq(s, 1, h), c, rep)
             \o replaceChar(SubSeq(s, h + 1, Len(s)), c, rep)

\* cardText.replace(/&/g,"&amp;").replace(/</g,"&lt;").replace(/>/g,"&gt;")
escapeHtml(s) == replaceChar(replaceChar(replaceChar(s, "&", AMP), "<", LT), ">", GT)

\* the text the backend writes for a prompt: a card that carries the name the
\* prompt gave
generatedText(p) == CARD_TEXT \o <<" ">> \o p.name

\* the emergency bar of the image handlers
emergencyText(L, body) ==
    emergency(L) \o <<" ">> \o body.contact_name \o <<" ">> \o body.contact_phone

\* ------------------------------------------------------------- environment
EnvVars == { "OPENAI_API_KEY", "SMTP_HOST", "SMTP_PORT", "SMTP_USER", "SMTP_PASS",
             "EMAIL_FROM", "RESEND_API_KEY",
             "CLOUDINARY_CLOUD_NAME", "CLOUDINARY_UPLOAD_PRESET" }

\* the deployments considered: everything set, one variable unset, the optional
\* image hosting unset, nothing set
EnvChoices ==
    {EnvVars, {}, EnvVars \ {"CLOUDINARY_CLOUD_NAME", "CLOUDINARY_UPLOAD_PRESET"}}
    \cup {EnvVars \ {v} : v \in EnvVars}

Handlers == {"api", "p000a", "p000b", "p001", "p002", "p003"}

\* ----------------------------------------------------------------- requests
RawTokens == {EGGS, RAW_EGGS_CAP, RAW_SOY_SPACED, RAW_TREE_NUTS, RAW_GLUTEN, RAW_DAIRY}

TokenSeqs == UNION {[1..n -> RawTokens] : n \in 0..MaxTokens}

NoAllergens == [allergens |-> [shape |-> "absent", val |-> <<>>], fields |-> <<>>]

\* the three accepted shapes of one list of raw tokens
asArray(ts) == [allergens |-> [shape |-> "array", val |-> ts], fields |-> <<>>]

asString(ts) ==
    [allergens |-> [shape |-> "string", val |-> join(ts, <<",">>)], fields |-> <<>>]

asCheckboxes(ts, on) ==
    [allergens |-> [shape |-> "absent", val |-> <<>>],
     fields    |-> [i \in 1..Len(ts) |->
                       [key |-> ALLERGENS_PREFIX \o ts[i], val |-> on[i]]]]

\* an object has each key once
Distinct(ts) == \A i, j \in 1..Len(ts) : i # j => ts[i] # ts[j]

AllergenInputs ==
    {NoAllergens}
    \cup {asArray(ts) : ts \in TokenSeqs}
    \cup {asString(ts) : ts \in TokenSeqs}
    \cup UNION {{asCheckboxes(ts, on) : on \in [1..Len(ts) -> BOOLEAN]} :
                    ts \in {t \in TokenSeqs : Distinct(t)}}

Languages == {<<>>, LANG_FR_UPPER, LANG_FR_SPACED, LANG_DE, LANG_CONSTRUCTOR}

Body(email, name, cname, phone, language, a) ==
    [ email |-> email, name |-> name, contact_name |-> cname,
      contact_phone |-> phone, language |-> language,
      allergens |-> a.allergens, fields |-> a.fields ]

\* requests that vary the method and the required fields
FlowRequests ==
    { [method |-> m, body |-> Body(e, n, CONTACT, p, LANG_FR_UPPER, asArray(<<EGGS, RAW_DAIRY>>))] :
        m \in {"POST", "GET", "OPTIONS"}, e \in {<<>>, RECIPIENT},
        n \in {<<>>, JO}, p \in {<<>>, PHONE} }

\* requests that vary the allergens and the language
FieldRequests ==
    { [method |-> "POST", body |-> Body(RECIPIENT, JO, CONTACT, <<>>, l, a)] :
        l \in {LANG_FR_UPPER}, a \in AllergenInputs }
    \cup
    { [method |-> "POST", body |-> Body(RECIPIENT, JO, CONTACT, PHONE, l, NoAllergens)] :
        l \in Languages }
    \cup
    { [method |-> "POST",
       body |-> Body(RECIPIENT, NAME_MARKUP, CONTACT, PHONE, l, NoAllergens)] :
        l \in {LANG_FR_UPPER, ZH} }

Requests(e) == IF e = EnvVars THEN FlowRequests \cup FieldRequests ELSE FlowRequests

\* messages of the errors the external services throw
ErrorMessages == {"ECONNREFUSED", ""}

\* -------------------------------------------------------------------- state
VARIABLES
    handler,    \* the deployed variant
    env,        \* the environment variables that are set
    req,        \* the request: method and body
    pc,         \* where the handler is: idle, received, an await, done
    allergens,  \* the allergen list after the handler's normalization
    lang,       \* the language code the handler selected
    cardText,   \* the text of the card (text-card variants)
    prompt,     \* the fields sent to the text-generation backend
    drawn,      \* the layout keys at which an X mark was drawn
    contactLine,\* the emergency bar of the image
    publicUrl,  \* the link of the uploaded image
    mail,       \* the message handed to the email sink
    res,        \* the response
    ext,        \* calls made to the external services
    err,        \* the error the handler's catch block received
    parked      \* the locals of the other handler executions in flight

vars == <<handler, env, req, pc, allergens, lang, cardText, prompt, drawn,
          contactLine, publicUrl, mail, res, ext, err, parked, shared>>

NoRequest == [method |-> "", body |-> Body(<<>>, <<>>, <<>>, <<>>, <<>>, NoAllergens)]
NoPrompt  == [language |-> <<>>, name |-> <<>>, allergens |-> <<>>, contact |-> <<>>]
NoMail    == [from |-> "", to |-> <<>>, subject |-> <<>>, text |-> <<>>, html |-> <<>>,
              attachments |-> 0]
NoResponse == [status |-> 0, ok |-> "none", text |-> "", cors |-> FALSE]
NoError   == [thrown |-> FALSE, source |-> "", message |-> ""]
\* the calls made to each external service, and what each answered
NoCalls   == [ai |-> 0, verify |-> 0, upload |-> 0, sink |-> 0,
              aiOutcome |-> "none", uploadOutcome |-> "none", sinkOutcome |-> "none"]

Init ==
    /\ handler \in Handlers
    /\ env \in EnvChoices
    /\ req = NoRequest
    /\ pc = "idle"
    /\ allergens = <<>>
    /\ lang = <<>>
    /\ cardText = <<>>
    /\ prompt = NoPrompt
    /\ drawn = <<>>
    /\ contactLine = <<>>
    /\ publicUrl = <<>>
    /\ mail = NoMail
    /\ res = NoResponse
    /\ ext = NoCalls
    /\ err = NoError
    /\ parked = <<>>
    /\ shared = Tables

\* the platform hands a request to the handler
Receive ==
    /\ pc = "idle"
    /\ \E r \in Requests(env) : req' = r
    /\ pc' = "received"
    /\ UNCHANGED <<parked, shared, handler, env, allergens, lang, cardText, prompt, drawn,
                   contactLine, publicUrl, mail, res, ext, err>>

\* ------------------------------------------------------ responses and errors
\* a handler that answers without having called setCors
CorsNever == FALSE

\* setCors runs first in the two handlers that have it
Cors == handler \in {"p000a", "p002"}

\* res.status(s).json(...): the handler returns
Respond(status, ok, text) ==
    /\ pc' = "done"
    /\ res' = [res EXCEPT !.status = status, !.ok = ok, !.text = text,
                          !.cors = Cors]
    /\ UNCHANGED err

\* the text each handler's catch block puts in its 500 response
catchText(h, message) ==
    CASE h = "api"   -> IF message # "" THEN message ELSE "Render or email failed"
      [] h = "p000a" -> IF message # "" THEN message ELSE "Internal error"
      [] h = "p000b" -> IF message # "" THEN message ELSE "Server error"
      [] h = "p001"  -> IF message # "" THEN message ELSE "failed"
      [] h = "p002"  -> "Internal error"
      [] h = "p003"  -> "Render or email failed"

\* an error reaches the handler's catch block
Catch(source, message) ==
    /\ pc' = "done"
    /\ err' = [thrown |-> TRUE, source |-> source, message |-> message]
    /\ res' = [res EXCEPT !.status = 500, !.ok = "false",
                          !.text = catchText(handler, message), !.cors = Cors]

\* the handler suspends at an await
Await(at) ==
    /\ pc' = at
    /\ UNCHANGED <<res, err>>

\* what the SMTP transport can answer to sendMail: it accepts a message only
\* with a host, credentials and a sender
SendMailOutcomes ==
    IF {"SMTP_HOST", "SMTP_USER", "SMTP_PASS", "EMAIL_FROM"} \subseteq env
    THEN {"accepted", "throws"}
    ELSE {"throws"}

\* what resend.emails.send can answer: it resolves with the message's id,
\* resolves with the provider's error (no id), or rejects
ResendOutcomes ==
    IF "RESEND_API_KEY" \in env
    THEN {"accepted", "error", "throws"}
    ELSE {"error", "throws"}

\* the template asset is read or the read fails; a profile without a template
\* names no file
TemplateOutcomes == IF hasTemplate(lang) THEN {"ok", "throws"} ELSE {"throws"}

CallSink == ext' = [ext EXCEPT !.sink = @ + 1]

\* --------------------------------------- src/api/render-and-email.mjs handler
FROM_EMAIL ==
    IF "EMAIL_FROM" \in env THEN "EMAIL_FROM" ELSE "Jaylen <jaylen@onresend.com>"

api_Begin ==
    /\ handler = "api" /\ pc = "received"
    /\ IF req.method # "POST"
       THEN Respond(405, "none", "POST only") /\ UNCHANGED <<allergens, lang>>
       ELSE IF "RESEND_API_KEY" \notin env
       THEN Respond(500, "none", "Missing RESEND_API_KEY env var")
            /\ UNCHANGED <<allergens, lang>>
       ELSE IF FROM_EMAIL = ""
       THEN Respond(500, "none", "Missing EMAIL_FROM env var")
            /\ UNCHANGED <<allergens, lang>>
       ELSE IF req.body.email = <<>>
       THEN Respond(400, "none", "Missing recipient email")
            /\ UNCHANGED <<allergens, lang>>
       ELSE /\ lang' = selectLanguage(req.body.language)
            /\ allergens' = splitAllergens(req.body)
            /\ Await("readTemplate")
    /\ UNCHANGED <<parked, shared, handler, env, req, cardText, prompt, drawn, contactLine,
                   publicUrl, mail, ext>>

\* readFile and loadImage return; the canvas is drawn and the mail is sent
api_TemplateLoaded ==
    /\ handler = "api" /\ pc = "readTemplate"
    /\ \E outcome \in TemplateOutcomes, m \in ErrorMessages :
        IF outcome = "throws"
        THEN Catch("template", m) /\ UNCHANGED <<drawn, contactLine, mail, ext>>
        ELSE /\ drawn' = drawMarks(allergens)
             /\ contactLine' = emergencyText(lang, req.body)
             /\ mail' = [from |-> FROM_EMAIL, to |-> req.body.email,
                         subject |-> subject(lang), text |-> <<>>,
                         html |-> DIV_OPEN \o P_OPEN \o emailLine(lang, req.body.name)
                                  \o P_CLOSE \o DIV_CLOSE,
                         attachments |-> 1]
             /\ CallSink
             /\ Await("send")
    /\ UNCHANGED <<parked, shared, handler, env, req, allergens, lang, cardText, prompt, publicUrl>>

api_SendReturned ==
    /\ handler = "api" /\ pc = "send"
    /\ \E outcome \in ResendOutcomes, m \in ErrorMessages :
        IF outcome = "throws"
        THEN Catch("send", m) /\ ext' = [ext EXCEPT !.sinkOutcome = "throws"]
        ELSE /\ ext' = [ext EXCEPT !.sinkOutcome = outcome]
             /\ Respond(200, "true", "")
    /\ UNCHANGED <<parked, shared, handler, env, req, allergens, lang, cardText, prompt, drawn,
                   contactLine, publicUrl, mail>>

\* ------------------------------------- src/unnamed/part_000:109-184 handler
\* the clean object of the two handlers that normalize their fields
Clean(body) ==
    [ email         |-> trim(body.email),
      name          |-> trim(body.name),
      contact_name  |-> trim(body.contact_name),
      contact_phone |-> trim(body.contact_phone),
      language      |-> normalizeLanguage(body.language),
      allergens     |-> normalizeAllergensFromBody(body) ]

\* after the text-generation step answered `ai`: buildTransporter, and
\* transporter.verify is called
p000a_BuildTransporter(ai) ==
    IF {"SMTP_HOST", "SMTP_PORT", "SMTP_USER", "SMTP_PASS"} \subseteq env
    THEN /\ ext' = [ext EXCEPT !.verify = @ + 1, !.aiOutcome = ai]
         /\ Await("verify")
    ELSE /\ Catch("config",
                  "Missing SMTP envs (SMTP_HOST/SMTP_PORT/SMTP_USER/SMTP_PASS).")
         /\ ext' = [ext EXCEPT !.aiOutcome = ai]

p000a_Begin ==
    /\ handler = "p000a" /\ pc = "received"
    /\ LET clean == Clean(req.body)
       IN  IF req.method = "OPTIONS"
           THEN Respond(204, "none", "")
                /\ UNCHANGED <<allergens, lang, cardText, prompt, ext>>
           ELSE IF req.method # "POST"
           THEN Respond(405, "false", "POST only")
                /\ UNCHANGED <<allergens, lang, cardText, prompt, ext>>
           ELSE /\ allergens' = clean.allergens
                /\ lang' = clean.language
                /\ IF clean.email = <<>> \/ clean.name = <<>>
                   THEN Respond(400, "false", "Missing required fields: name, email")
                        /\ UNCHANGED <<cardText, prompt, ext>>
                   ELSE IF "OPENAI_API_KEY" \notin env
                   THEN \* generateCardWithAI throws at once: the fallback is used
                        /\ cardText' = fallbackCard(clean)
                        /\ UNCHANGED prompt
                        /\ p000a_BuildTransporter("unavailable")
                   ELSE /\ prompt' = cardPrompt(clean)
                        /\ ext' = [ext EXCEPT !.ai = @ + 1]
                        /\ Await("ai")
                        /\ UNCHANGED cardText
    /\ UNCHANGED <<parked, shared, handler, env, req, drawn, contactLine, publicUrl, mail>>

\* the text-generation call returns its text, nothing, or an error; then the
\* transporter is built
p000a_AIReturned ==
    /\ handler = "p000a" /\ pc = "ai"
    /\ \E outcome \in {"text", "empty", "throws"} :
        /\ cardText' = IF outcome = "text" THEN generatedText(prompt)
                       ELSE fallbackCard(Clean(req.body))
        /\ p000a_BuildTransporter(outcome)
    /\ UNCHANGED <<parked, shared, handler, env, req, allergens, lang, prompt, drawn, contactLine,
                   publicUrl, mail>>

p000a_VerifyReturned ==
    /\ handler = "p000a" /\ pc = "verify"
    /\ \E outcome \in {"ok", "throws"}, m \in ErrorMessages :
        IF outcome = "throws"
        THEN Catch("verify", "SMTP auth failed: " \o (IF m # "" THEN m ELSE "unknown"))
             /\ UNCHANGED <<mail, ext>>
        ELSE IF "EMAIL_FROM" \notin env
        THEN Catch("config", "Missing EMAIL_FROM (must be a verified sender in Brevo).")
             /\ UNCHANGED <<mail, ext>>
        ELSE /\ mail' = [from |-> "EMAIL_FROM", to |-> trim(req.body.email),
                         subject |-> SUBJECT_PREFIX \o trim(req.body.name),
                         text |-> cardText,
                         html |-> DIV_OPEN \o escapeHtml(cardText) \o DIV_CLOSE,
                         attachments |-> 0]
             /\ CallSink
             /\ Await("send")
    /\ UNCHANGED <<parked, shared, handler, env, req, allergens, lang, cardText, prompt, drawn,
                   contactLine, publicUrl>>

p000a_SendReturned ==
    /\ handler = "p000a" /\ pc = "send"
    /\ \E outcome \in SendMailOutcomes, m \in ErrorMessages :
        IF outcome = "throws"
        THEN Catch("send", m) /\ ext' = [ext EXCEPT !.sinkOutcome = "throws"]
        ELSE /\ ext' = [ext EXCEPT !.sinkOutcome = "accepted"]
             /\ Respond(200, "true", "")
    /\ UNCHANGED <<parked, shared, handler, env, req, allergens, lang, cardText, prompt, drawn,
                   contactLine, publicUrl, mail>>

\* ------------------------------------- src/unnamed/part_000:215-295 handler
p000b_Begin ==
    /\ handler = "p000b" /\ pc = "received"
    /\ IF req.method # "POST"
       THEN Respond(405, "none", "POST only")
            /\ UNCHANGED <<allergens, lang, prompt, ext>>
       ELSE IF "OPENAI_API_KEY" \notin env
       THEN Respond(500, "false", "Missing OPENAI_API_KEY")
            /\ UNCHANGED <<allergens, lang, prompt, ext>>
       ELSE IF ~({"SMTP_HOST", "SMTP_USER", "SMTP_PASS", "EMAIL_FROM"} \subseteq env)
       THEN Respond(500, "false", "Missing SMTP env vars")
            /\ UNCHANGED <<allergens, lang, prompt, ext>>
       ELSE IF req.body.email = <<>>
       THEN Respond(400, "false", "Missing recipient email")
            /\ UNCHANGED <<allergens, lang, prompt, ext>>
       ELSE /\ allergens' = promptList(req.body)
            /\ lang' = supportedOrEn(req.body.language)
            /\ prompt' = buildPrompt(req.body)
            /\ ext' = [ext EXCEPT !.ai = @ + 1]
            /\ Await("ai")
    /\ UNCHANGED <<parked, shared, handler, env, req, cardText, drawn, contactLine, publicUrl, mail>>

\* the completion returns; the mail is composed and sent
p000b_AIReturned ==
    /\ handler = "p000b" /\ pc = "ai"
    /\ \E outcome \in {"text", "empty", "throws"}, m \in ErrorMessages :
        IF outcome = "throws"
        THEN /\ Catch("ai", m)
             /\ ext' = [ext EXCEPT !.aiOutcome = "throws"]
             /\ UNCHANGED <<cardText, mail>>
        ELSE LET text == IF outcome = "text" THEN generatedText(prompt) ELSE NOT_GENERATED
             IN  /\ cardText' = text
                 /\ mail' = [from |-> "EMAIL_FROM", to |-> req.body.email,
                             subject |-> subjectMap(lang), text |-> <<>>,
                             html |-> DIV_OPEN \o PRE_OPEN \o text \o PRE_CLOSE
                                      \o DIV_CLOSE,
                             attachments |-> 0]
                 /\ ext' = [ext EXCEPT !.sink = @ + 1, !.aiOutcome = outcome]
                 /\ Await("send")
    /\ UNCHANGED <<parked, shared, handler, env, req, allergens, lang, prompt, drawn, contactLine,
                   publicUrl>>

p000b_SendReturned ==
    /\ handler = "p000b" /\ pc = "send"
    /\ \E outcome \in SendMailOutcomes, m \in ErrorMessages :
        IF outcome = "throws"
        THEN Catch("send", m) /\ ext' = [ext EXCEPT !.sinkOutcome = "throws"]
        ELSE /\ ext' = [ext EXCEPT !.sinkOutcome = "accepted"]
             /\ Respond(200, "true", "")
    /\ UNCHANGED <<parked, shared, handler, env, req, allergens, lang, cardText, prompt, drawn,
                   contactLine, publicUrl, mail>>

\* ------------------------------------------- src/unnamed/part_001 handler
\* buildOverlaySVG: one <text> mark per layout entry the list includes
buildOverlaySVG(list) ==
    LET layout  == shared.marks
        entries == [i \in 1..Len(layout) |->
                       IF includes(list, layout[i])
                       THEN <<[key |-> layout[i], x |-> markPosition(layout[i]).x,
                               y |-> markPosition(layout[i]).y]>>
                       ELSE <<>>]
        concat[n \in 0..Len(layout)] ==
            IF n = 0 THEN <<>> ELSE concat[n - 1] \o entries[n]
    IN  concat[Len(layout)]

p001_Begin ==
    /\ handler = "p001" /\ pc = "received"
    /\ IF req.method # "POST"
       THEN Respond(405, "none", "POST only") /\ UNCHANGED <<allergens, lang>>
       ELSE IF ~({"SMTP_HOST", "SMTP_USER", "SMTP_PASS", "EMAIL_FROM"} \subseteq env)
       THEN Respond(500, "false", "Missing SMTP env vars")
            /\ UNCHANGED <<allergens, lang>>
       ELSE IF req.body.email = <<>>
       THEN Respond(400, "false", "Missing recipient email")
            /\ UNCHANGED <<allergens, lang>>
       ELSE /\ lang' = selectLanguage(req.body.language)
            /\ allergens' = splitAllergens(req.body)
            /\ Await("readTemplate")
    /\ UNCHANGED <<parked, shared, handler, env, req, cardText, prompt, drawn, contactLine,
                   publicUrl, mail, ext>>

\* readFile returns; the overlay is built and the mail is sent
p001_TemplateRead ==
    /\ handler = "p001" /\ pc = "readTemplate"
    /\ \E outcome \in TemplateOutcomes, m \in ErrorMessages :
        IF outcome = "throws"
        THEN Catch("template", m) /\ UNCHANGED <<drawn, contactLine, mail, ext>>
        ELSE /\ drawn' = buildOverlaySVG(allergens)
             /\ contactLine' = emergencyText(lang, req.body)
             /\ mail' = [from |-> "EMAIL_FROM", to |-> req.body.email,
                         subject |-> subject(lang), text |-> <<>>,
                         html |-> DIV_OPEN \o P_OPEN \o emailLine(lang, req.body.name)
                                  \o P_CLOSE \o DIV_CLOSE,
                         attachments |-> 2]
             /\ CallSink
             /\ Await("send")
    /\ UNCHANGED <<parked, shared, handler, env, req, allergens, lang, cardText, prompt, publicUrl>>

p001_SendReturned ==
    /\ handler = "p001" /\ pc = "send"
    /\ \E outcome \in SendMailOutcomes, m \in ErrorMessages :
        IF outcome = "throws"
        THEN Catch("send", m) /\ ext' = [ext EXCEPT !.sinkOutcome = "throws"]
        ELSE /\ ext' = [ext EXCEPT !.sinkOutcome = "accepted"]
             /\ Respond(200, "true", "")
    /\ UNCHANGED <<parked, shared, handler, env, req, allergens, lang, cardText, prompt, drawn,
                   contactLine, publicUrl, mail>>

\* ------------------------------------------- src/unnamed/part_002 handler
\* buildTransporter checks nothing; the mail is composed and sendMail is called
p002_SendMail(text) ==
    /\ mail' = [from |-> IF "EMAIL_FROM" \in env THEN "EMAIL_FROM" ELSE "undefined",
                to |-> trim(req.body.email),
                subject |-> SUBJECT_PREFIX \o trim(req.body.name),
                text |-> text,
                html |-> DIV_OPEN \o escapeHtml(text) \o DIV_CLOSE,
                attachments |-> 0]
    /\ Await("send")

p002_Begin ==
    /\ handler = "p002" /\ pc = "received"
    /\ LET clean == Clean(req.body)
       IN  IF req.method = "OPTIONS"
           THEN Respond(204, "none", "")
                /\ UNCHANGED <<allergens, lang, cardText, prompt, mail, ext>>
           ELSE IF req.method # "POST"
           THEN Respond(405, "false", "POST only")
                /\ UNCHANGED <<allergens, lang, cardText, prompt, mail, ext>>
           ELSE /\ allergens' = clean.allergens
                /\ lang' = clean.language
                /\ IF clean.email = <<>> \/ clean.name = <<>>
                   THEN Respond(400, "false", "Missing required fields: name, email")
                        /\ UNCHANGED <<cardText, prompt, mail, ext>>
                   ELSE IF "OPENAI_API_KEY" \notin env
                   THEN \* the client cannot be constructed without a key: the
                        \* fallback is used and the mail goes out
                        /\ cardText' = fallbackCard(clean)
                        /\ UNCHANGED prompt
                        /\ p002_SendMail(fallbackCard(clean))
                        /\ ext' = [ext EXCEPT !.sink = @ + 1,
                                              !.aiOutcome = "unavailable"]
                   ELSE /\ prompt' = cardPrompt(clean)
                        /\ ext' = [ext EXCEPT !.ai = @ + 1]
                        /\ Await("ai")
                        /\ UNCHANGED <<cardText, mail>>
    /\ UNCHANGED <<parked, shared, handler, env, req, drawn, contactLine, publicUrl>>

p002_AIReturned ==
    /\ handler = "p002" /\ pc = "ai"
    /\ \E outcome \in {"text", "empty", "throws"} :
        LET text == IF outcome = "text" THEN generatedText(prompt)
                    ELSE fallbackCard(Clean(req.body))
        IN  /\ cardText' = text
            /\ p002_SendMail(text)
            /\ ext' = [ext EXCEPT !.sink = @ + 1, !.aiOutcome = outcome]
    /\ UNCHANGED <<parked, shared, handler, env, req, allergens, lang, prompt, drawn, contactLine,
                   publicUrl>>

p002_SendReturned ==
    /\ handler = "p002" /\ pc = "send"
    /\ \E outcome \in SendMailOutcomes, m \in ErrorMessages :
        IF outcome = "throws"
        THEN Catch("send", m) /\ ext' = [ext EXCEPT !.sinkOutcome = "throws"]
        ELSE /\ ext' = [ext EXCEPT !.sinkOutcome = "accepted"]
             /\ Respond(200, "true", "")
    /\ UNCHANGED <<parked, shared, handler, env, req, allergens, lang, cardText, prompt, drawn,
                   contactLine, publicUrl, mail>>

\* ------------------------------------------- src/unnamed/part_003 handler
FROM_EMAIL_p003 ==
    IF "EMAIL_FROM" \in env THEN "EMAIL_FROM" ELSE "no-reply@example.com"

\* the mail of the image handler with the optional link, handed to the sink
p003_SendMail(url, upload) ==
    /\ mail' = [from |-> FROM_EMAIL_p003, to |-> req.body.email,
                subject |-> subject(lang), text |-> <<>>,
                html |-> DIV_OPEN \o P_OPEN \o emailLine(lang, req.body.name)
                         \o P_CLOSE
                         \o (IF url # <<>> THEN P_OPEN \o A_OPEN \o url \o A_MID
                                                \o P_CLOSE
                             ELSE <<>>)
                         \o DIV_CLOSE,
                attachments |-> 1]
    /\ ext' = [ext EXCEPT !.sink = @ + 1, !.uploadOutcome = upload]
    /\ Await("send")

p003_Begin ==
    /\ handler = "p003" /\ pc = "received"
    /\ IF req.method # "POST"
       THEN Respond(405, "none", "POST only") /\ UNCHANGED <<allergens, lang>>
       ELSE IF req.body.email = <<>>
       THEN Respond(400, "none", "Missing recipient email")
            /\ UNCHANGED <<allergens, lang>>
       ELSE /\ lang' = selectLanguage(req.body.language)
            /\ allergens' = splitAllergens(req.body)
            /\ Await("readTemplate")
    /\ UNCHANGED <<parked, shared, handler, env, req, cardText, prompt, drawn, contactLine,
                   publicUrl, mail, ext>>

\* loadImage returns; the canvas is drawn; the image is uploaded when the
\* image host is configured, else the mail is sent
p003_TemplateLoaded ==
    /\ handler = "p003" /\ pc = "readTemplate"
    /\ \E outcome \in TemplateOutcomes, m \in ErrorMessages :
        IF outcome = "throws"
        THEN Catch("template", m) /\ UNCHANGED <<drawn, contactLine, mail, ext>>
        ELSE /\ drawn' = drawMarks(allergens)
             /\ contactLine' = emergencyText(lang, req.body)
             /\ IF {"CLOUDINARY_CLOUD_NAME", "CLOUDINARY_UPLOAD_PRESET"} \subseteq env
                THEN /\ ext' = [ext EXCEPT !.upload = @ + 1]
                     /\ Await("upload")
                     /\ UNCHANGED mail
                ELSE p003_SendMail(<<>>, "none")
    /\ UNCHANGED <<parked, shared, handler, env, req, allergens, lang, cardText, prompt, publicUrl>>

\* fetch and resp.json() return: a body with secure_url, a body without it, or
\* an error (the network fails, the body is no JSON)
p003_UploadReturned ==
    /\ handler = "p003" /\ pc = "upload"
    /\ \E outcome \in {"url", "no_url", "throws"}, m \in ErrorMessages :
        IF outcome = "throws"
        THEN /\ Catch("upload", m)
             /\ ext' = [ext EXCEPT !.uploadOutcome = "throws"]
             /\ UNCHANGED <<publicUrl, mail>>
        ELSE LET url == IF outcome = "url" THEN SECURE_URL ELSE <<>>
             IN  /\ publicUrl' = url
                 /\ p003_SendMail(url, outcome)
    /\ UNCHANGED <<parked, shared, handler, env, req, allergens, lang, cardText, prompt, drawn,
                   contactLine>>

p003_SendReturned ==
    /\ handler = "p003" /\ pc = "send"
    /\ \E outcome \in ResendOutcomes, m \in ErrorMessages :
        IF outcome = "throws"
        THEN Catch("send", m) /\ ext' = [ext EXCEPT !.sinkOutcome = "throws"]
        ELSE /\ ext' = [ext EXCEPT !.sinkOutcome = outcome]
             /\ Respond(200, "true", "")
    /\ UNCHANGED <<parked, shared, handler, env, req, allergens, lang, cardText, prompt, drawn,
                   contactLine, publicUrl, mail>>

\* ------------------------------------------------------------ specification
Next ==
    \/ Receive
    \/ api_Begin \/ api_TemplateLoaded \/ api_SendReturned
    \/ p000a_Begin \/ p000a_AIReturned \/ p000a_VerifyReturned \/ p000a_SendReturned
    \/ p000b_Begin \/ p000b_AIReturned \/ p000b_SendReturned
    \/ p001_Begin \/ p001_TemplateRead \/ p001_SendReturned
    \/ p002_Begin \/ p002_AIReturned \/ p002_SendReturned
    \/ p003_Begin \/ p003_TemplateLoaded \/ p003_UploadReturned \/ p003_SendReturned

Spec == Init /\ [][Next]_vars

\* ------------------------------------------------- concurrent executions
\* The platform runs one handler execution at a time and switches between
\* executions only where one awaits. The locals of an execution are its own;
\* the module-level tables and the environment belong to the process.

\* the number of other executions in flight beside the running one
MaxParked == 1

RECIPIENT_2 ==
    <<"c","@","d",".","o","r","g">>

\* the requests that arrive while another is in flight
ConcRequests ==
    { [method |-> "POST",
       body |-> Body(RECIPIENT, JO, CONTACT, PHONE, LANG_FR_UPPER, asArray(<<EGGS>>))],
      [method |-> "POST",
       body |-> Body(RECIPIENT_2, CONTACT, JO, <<>>, ES, asString(<<SOY, DAIRY>>))] }

\* the locals of an execution that has not started
Fresh ==
    [ req |-> NoRequest, pc |-> "idle", allergens |-> <<>>, lang |-> <<>>,
      cardText |-> <<>>, prompt |-> NoPrompt, drawn |-> <<>>, contactLine |-> <<>>,
      publicUrl |-> <<>>, mail |-> NoMail, res |-> NoResponse, ext |-> NoCalls,
      err |-> NoError ]

\* the locals of the running execution
Locals ==
    [ req |-> req, pc |-> pc, allergens |-> allergens, lang |-> lang,
      cardText |-> cardText, prompt |-> prompt, drawn |-> drawn,
      contactLine |-> contactLine, publicUrl |-> publicUrl, mail |-> mail,
      res |-> res, ext |-> ext, err |-> err ]

\* a language code kept in a module-level variable: an execution that resumes
\* finds the value the last execution wrote
ResumeSharedLang(c) == [c EXCEPT !.lang = lang]

\* an execution resumes with the locals it was suspended with: every value a
\* handler computes is a let or const of the handler's own scope
Resume(c) == c

InitConc ==
    /\ handler \in Handlers
    /\ env = EnvVars
    /\ req = NoRequest
    /\ pc = "idle"
    /\ allergens = <<>>
    /\ lang = <<>>
    /\ cardText = <<>>
    /\ prompt = NoPrompt
    /\ drawn = <<>>
    /\ contactLine = <<>>
    /\ publicUrl = <<>>
    /\ mail = NoMail
    /\ res = NoResponse
    /\ ext = NoCalls
    /\ err = NoError
    /\ parked = [i \in 1..MaxParked |-> Fresh]
    /\ shared = Tables

\* the platform hands a request to an execution
ReceiveConc ==
    /\ pc = "idle"
    /\ \E r \in ConcRequests : req' = r
    /\ pc' = "received"
    /\ UNCHANGED <<parked, shared, handler, env, allergens, lang, cardText, prompt,
                   drawn, contactLine, publicUrl, mail, res, ext, err>>

\* the running execution is suspended (or has not started, or has returned)
\* and the event loop runs another one
Switch ==
    \E i \in 1..Len(parked) :
        LET r == Resume(parked[i])
        IN  /\ parked' = [parked EXCEPT ![i] = Locals]
            /\ req' = r.req
            /\ pc' = r.pc
            /\ allergens' = r.allergens
            /\ lang' = r.lang
            /\ cardText' = r.cardText
            /\ prompt' = r.prompt
            /\ drawn' = r.drawn
            /\ contactLine' = r.contactLine
            /\ publicUrl' = r.publicUrl
            /\ mail' = r.mail
            /\ res' = r.res
            /\ ext' = r.ext
            /\ err' = r.err
            /\ UNCHANGED <<shared, handler, env>>

NextConc ==
    \/ ReceiveConc
    \/ Switch
    \/ api_Begin \/ api_TemplateLoaded \/ api_SendReturned
    \/ p000a_Begin \/ p000a_AIReturned \/ p000a_VerifyReturned \/ p000a_SendReturned
    \/ p000b_Begin \/ p000b_AIReturned \/ p000b_SendReturned
    \/ p001_Begin \/ p001_TemplateRead \/ p001_SendReturned
    \/ p002_Begin \/ p002_AIReturned \/ p002_SendReturned
    \/ p003_Begin \/ p003_TemplateLoaded \/ p003_UploadReturned \/ p003_SendReturned

SpecConc == InitConc /\ [][NextConc]_vars

\* ------------------------------------------------------------------- claims
Posted == req.method = "POST"

Done == pc = "done"

\* the handler has read and normalized the body's fields
Normalized == pc \in {"ai", "verify", "readTemplate", "upload", "send"}

TextCardHandlers == {"p000a", "p000b", "p002"}

\* the email sink accepted the message of this request
Dispatched == ext.sinkOutcome = "accepted"

\* the body lacks a field the specification requires of this variant
LacksRequiredField ==
    \/ trim(req.body.email) = <<>>
    \/ handler \in TextCardHandlers /\ trim(req.body.name) = <<>>

\* the credentials and sender address the specification requires of a variant
RequiredEnv(h) ==
    IF h \in {"api", "p003"} THEN {"RESEND_API_KEY", "EMAIL_FROM"}
    ELSE IF h = "p001" THEN {"SMTP_HOST", "SMTP_USER", "SMTP_PASS", "EMAIL_FROM"}
    ELSE {"OPENAI_API_KEY", "SMTP_HOST", "SMTP_USER", "SMTP_PASS", "EMAIL_FROM"}

\* the response texts that name a missing piece of configuration
ConfigMessages ==
    { "Missing RESEND_API_KEY env var", "Missing EMAIL_FROM env var",
      "Missing OPENAI_API_KEY", "Missing SMTP env vars",
      "Missing SMTP envs (SMTP_HOST/SMTP_PORT/SMTP_USER/SMTP_PASS).",
      "Missing EMAIL_FROM (must be a verified sender in Brevo)." }

\* the list each variant uses as the request's allergens
usedAllergens(h, body) ==
    IF h \in {"p000a", "p002"} THEN normalizeAllergensFromBody(body)
    ELSE IF h = "p000b" THEN promptList(body)
    ELSE splitAllergens(body)

\* the raw tokens a body carries, whatever its shape
rawTokens(body) ==
    IF body.allergens.shape = "array" THEN body.allergens.val
    ELSE IF body.allergens.shape = "string" THEN splitComma(body.allergens.val)
    ELSE LET on(f) == f.val
             strip(f) == SubSeq(f.key, Len(ALLERGENS_PREFIX) + 1, Len(f.key))
             checked == SelectSeq(body.fields, on)
         IN  [i \in 1..Len(checked) |-> strip(checked[i])]

\* a list without its repeated entries (the first occurrence is kept)
RECURSIVE dedupe(_)
dedupe(ts) ==
    IF ts = <<>> THEN <<>>
    ELSE LET front == dedupe(SubSeq(ts, 1, Len(ts) - 1))
         IN  IF includes(front, ts[Len(ts)]) THEN front
             ELSE Append(front, ts[Len(ts)])

\* the request's body with its allergens replaced
withAllergens(body, a) == [body EXCEPT !.allergens = a.allergens, !.fields = a.fields]

\* C1: no partial success. When a handler has answered, the status is 200 if
\* and only if the email sink accepted the message of that request.
C1_NoPartialSuccess == Done => (res.status = 200 <=> Dispatched)

\* C2: a POST request that lacks a required field (email; also name in the
\* text-card variants) is answered 400 with an error text, and no call to the
\* text-generation backend, the image host or the email sink is made for it,
\* whatever the environment holds.
C2_MissingFieldIs400 ==
    (Posted /\ LacksRequiredField) =>
        /\ ext.ai = 0 /\ ext.upload = 0 /\ ext.sink = 0
        /\ Done => (res.status = 400 /\ res.text # "")

\* C3: in the text-card handlers, when the text-generation backend is
\* unavailable, throws or answers nothing, the card text is the fallback
\* template's output, the request goes on to the email sink, and the backend's
\* failure is not answered as an error.
C3_BackendFailureRecovered ==
    (handler \in TextCardHandlers
        /\ ext.aiOutcome \in {"unavailable", "throws", "empty"}) =>
        /\ cardText = fallbackCard(Clean(req.body))
        /\ ~(Done /\ err.thrown /\ err.source = "ai")

\* C4: in the image handler with image hosting enabled the upload is
\* best-effort: when the upload step was started the email sink is invoked
\* all the same, also when the upload fails.
C4_UploadIsBestEffort ==
    (handler = "p003" /\ Done /\ ext.upload > 0) => ext.sink > 0

\* C5: when a required credential or the sender address is absent, a POST
\* request with valid fields is answered 500 with a text naming the missing
\* configuration, and neither the text-generation backend nor the email sink
\* is called for it.
C5_MissingConfigIs500 ==
    (Posted /\ ~LacksRequiredField /\ ~(RequiredEnv(handler) \subseteq env)) =>
        /\ ext.ai = 0 /\ ext.sink = 0
        /\ Done => (res.status = 500 /\ res.text \in ConfigMessages)

\* C6: when the email sink reports a delivery error (it rejects, or the send
\* call returns the provider's error), the response is 500; and the sink is
\* never invoked a second time for a request.
C6_DeliveryErrorIs500 ==
    /\ ext.sink <= 1
    /\ (Done /\ ext.sinkOutcome \in {"throws", "error"}) => res.status = 500

\* C7: every 500 response that comes from the catch block carries ok:false
\* and the message text of the error that was caught.
C7_ErrorMessageSurfaced ==
    (Done /\ err.thrown /\ err.message # "") =>
        (res.status = 500 /\ res.ok = "false" /\ res.text = err.message)

\* C8: the three input shapes (array, comma-separated string, checkbox
\* fields) of one list of raw tokens give the same set of allergens in every
\* handler.
C8_ShapesAgree ==
    Normalized =>
        LET ts   == dedupe(rawTokens(req.body))
            used(a) == Range(usedAllergens(handler, withAllergens(req.body, a)))
        IN  /\ Range(allergens) = used(asArray(ts))
            /\ Range(allergens) = used(asString(ts))
            /\ Range(allergens) = used(asCheckboxes(ts, [i \in 1..Len(ts) |-> TRUE]))

\* C9: the allergen list a handler uses after its normalization holds only
\* tags of the fixed vocabulary.
C9_OnlyKnownAllergens ==
    Normalized => \A i \in 1..Len(allergens) : isKnown(allergens[i])

\* C10: the normalized allergens hold no tag twice, so the card's allergy
\* statement lists each tag once.
C10_NoTagTwice ==
    (Normalized /\ handler \in {"p000a", "p002"}) =>
        \A i, j \in 1..Len(allergens) : i # j => allergens[i] # allergens[j]

\* C11: language normalization is total and silent. The code a handler
\* selected is one of en, fr, es, pt, zh; a supported code in any letter case
\* gives that code in lower case; a missing or unsupported value gives en; so
\* the language profile that is looked up next has a template.
C11_LanguageNormalized ==
    Normalized =>
        LET l == toLowerCase(req.body.language)
        IN  /\ includes(SUPPORTED_LANGS, lang)
            /\ hasTemplate(lang)
            /\ includes(SUPPORTED_LANGS, l) => lang = l
            /\ ~includes(SUPPORTED_LANGS, toLowerCase(trim(req.body.language)))
                   => lang = EN

ImageHandlers == {"api", "p001", "p003"}

\* the overlay of this request has been composed
Composed ==
    /\ handler \in ImageHandlers
    /\ \/ pc \in {"upload", "send"}
       \/ Done /\ ext.upload + ext.sink > 0

\* the vocabulary tags that occur in the list handed to the compositor
presentTags == {k \in Range(marks) : \E i \in 1..Len(allergens) : allergens[i] = k}

\* C12: the marks of a composed overlay are the distinct vocabulary tags of
\* the list it was given: one mark per present tag, at that tag's coordinate,
\* none for an absent tag or for a tag without a layout entry, and no second
\* mark for a repeated tag.
C12_OneMarkPerTag ==
    Composed =>
        /\ Len(drawn) = Cardinality(presentTags)
        /\ {drawn[i].key : i \in 1..Len(drawn)} = presentTags
        /\ \A i \in 1..Len(drawn) :
               /\ drawn[i].x = markPosition(drawn[i].key).x
               /\ drawn[i].y = markPosition(drawn[i].key).y
        /\ \A i, j \in 1..Len(drawn) :
               i # j => <<drawn[i].x, drawn[i].y>> # <<drawn[j].x, drawn[j].y>>

\* an overlay composed from a list that repeats a tag and a list that holds
\* an entry without a layout entry
C12_Witness ==
    /\ Composed
    /\ Len(allergens) = 2
    /\ allergens[1] = EGGS
    /\ allergens[2] \in {EGGS, RAW_GLUTEN}
    /\ Len(drawn) = 1

\* t occurs in s as a run of consecutive characters
occursIn(t, s) ==
    \E i \in 1..(Len(s) - Len(t) + 1) : SubSeq(s, i, i + Len(t) - 1) = t

hasMarkup(t) == \E i \in 1..Len(t) : t[i] \in {"&", "<", ">"}

\* the message of this request has been composed and handed to the sink
Composed_Mail == ext.sink > 0

\* the user-influenced texts a variant interpolates into the HTML body: the
\* card text, or the name of the greeting line (the zh line holds no name)
interpolatedTexts ==
    IF handler \in TextCardHandlers THEN {cardText}
    ELSE IF lang = ZH THEN {}
    ELSE {req.body.name}

NotPosted == req.method \notin {"", "POST"} /\ pc # "received"

\* C14: a request whose method is not POST is answered at once: 204 with the
\* CORS headers for OPTIONS in the handlers that set them, 405 with an error
\* text otherwise; none of its input is processed and no text-generation,
\* upload or email call is made.
C14_MethodNotAllowed ==
    NotPosted =>
        /\ Done
        /\ IF req.method = "OPTIONS" /\ handler \in {"p000a", "p002"}
           THEN res.status = 204 /\ res.cors
           ELSE res.status = 405 /\ res.text # ""
        /\ ~err.thrown
        /\ ext = NoCalls
        /\ mail = NoMail
        /\ prompt = NoPrompt
        /\ allergens = <<>> /\ lang = <<>> /\ cardText = <<>>
        /\ drawn = <<>> /\ contactLine = <<>> /\ publicUrl = <<>>

\* a pre-flight request answered by a handler that sets the CORS headers
C14_Witness ==
    /\ Done
    /\ req.method = "OPTIONS"
    /\ res.status = 204
    /\ req.body.email # <<>>

UNDEFINED_TOKEN == <<"u","n","d","e","f","i","n","e","d">>

NULL_TOKEN == <<"n","u","l","l">>

\* the line of a card that starts with the emergency-contact label
contactLineOf(card) ==
    LET starts == {i \in 1..(Len(card) - Len(CONTACT_LABEL) + 1) :
                      SubSeq(card, i, i + Len(CONTACT_LABEL) - 1) = CONTACT_LABEL}
    IN  IF starts = {} THEN <<>>
        ELSE LET i == CHOOSE k \in starts : \A m \in starts : k <= m
                 ends == {k \in i..Len(card) : card[k] = "\n"}
                 j == IF ends = {} THEN Len(card) + 1
                      ELSE CHOOSE k \in ends : \A m \in ends : k <= m
             IN  SubSeq(card, i, j - 1)

\* every parenthesis of the line has its match
balanced(line) ==
    LET count(c, n) == Cardinality({k \in 1..n : line[k] = c})
    IN  /\ count("(", Len(line)) = count(")", Len(line))
        /\ \A n \in 0..Len(line) : count(")", n) <= count("(", n)

parentheses(line) == Cardinality({n \in 1..Len(line) : line[n] \in {"(", ")"}})

\* a contact line for a request that names a contact and gives no phone
wellFormed(line) ==
    /\ occursIn(trim(req.body.contact_name), line)
    /\ ~occursIn(UNDEFINED_TOKEN, line)
    /\ ~occursIn(NULL_TOKEN, line)
    /\ balanced(line)
    /\ parentheses(line) = parentheses(req.body.contact_name)

ContactWithoutPhone ==
    /\ Posted
    /\ trim(req.body.contact_name) # <<>>
    /\ trim(req.body.contact_phone) = <<>>

\* the text-generation step failed and the fallback card was written
FellBack ==
    /\ handler \in {"p000a", "p002"}
    /\ ext.aiOutcome \in {"unavailable", "empty", "throws"}

langOf(h, body) ==
    IF h \in {"p000a", "p002"} THEN normalizeLanguage(body.language)
    ELSE IF h = "p000b" THEN supportedOrEn(body.language)
    ELSE selectLanguage(body.language)

recipientOf(h, body) ==
    IF h \in {"p000a", "p002"} THEN trim(body.email) ELSE body.email

subjectOf(h, body) ==
    IF h \in {"p000a", "p002"} THEN SUBJECT_PREFIX \o trim(body.name)
    ELSE IF h = "p000b" THEN subjectMap(langOf(h, body))
    ELSE subject(langOf(h, body))

promptOf(h, body) ==
    IF h = "p000b" THEN buildPrompt(body) ELSE cardPrompt(Clean(body))

cardTextsOf(h, body) ==
    IF h = "p000b" THEN {generatedText(promptOf(h, body)), NOT_GENERATED}
    ELSE {generatedText(promptOf(h, body)), fallbackCard(Clean(body))}

marksOf(h, body) ==
    IF h = "p001" THEN buildOverlaySVG(usedAllergens(h, body))
    ELSE drawMarks(usedAllergens(h, body))

\* the locals c of an execution hold what its own request gives when it runs
\* alone, and nothing of another request
RunsAlone(c) ==
    LET b == c.req.body
    IN  /\ c.pc = "idle" => c = Fresh
        /\ c.pc = "received" => c = [Fresh EXCEPT !.req = c.req, !.pc = "received"]
        /\ c.pc \notin {"idle", "received"} =>
            /\ c.lang = langOf(handler, b)
            /\ c.allergens = usedAllergens(handler, b)
            /\ c.ext.sink <= 1
        /\ c.ext.ai > 0 => c.prompt = promptOf(handler, b)
        /\ c.ext.sink > 0 =>
            /\ c.mail.to = recipientOf(handler, b)
            /\ c.mail.subject = subjectOf(handler, b)
            /\ handler \in TextCardHandlers =>
                /\ c.cardText \in cardTextsOf(handler, b)
                /\ occursIn(IF handler = "p000b" THEN c.cardText
                            ELSE escapeHtml(c.cardText), c.mail.html)
            /\ handler \in ImageHandlers =>
                /\ c.drawn = marksOf(handler, b)
                /\ c.contactLine = emergencyText(langOf(handler, b), b)
                /\ occursIn(emailLine(langOf(handler, b), b.name), c.mail.html)
        /\ c.pc = "done" =>
            IF c.err.thrown
            THEN /\ c.res.status = 500
                 /\ c.res.text = catchText(handler, c.err.message)
            ELSE /\ c.res.status = 200
                 /\ c.ext.sink = 1
                 /\ c.ext.sinkOutcome \in {"accepted", "error"}

\* C16: concurrent requests are independent. Whatever the interleaving of the
\* executions at their awaits, each execution's locals, the mail handed to
\* the sink for it (recipient, subject, language, marks, contact line) and
\* its response are those its own request gives when it runs alone; and the
\* process-wide language table and marker layout are never written.
C16_Independent ==
    /\ shared = Tables
    /\ RunsAlone(Locals)
    /\ \A i \in 1..Len(parked) : RunsAlone(parked[i])

\* two executions for different requests, both suspended at the email send
C16_Witness ==
    /\ Len(parked) > 0
    /\ pc = "send"
    /\ parked[1].pc = "send"
    /\ req # parked[1].req
    /\ mail.to # parked[1].mail.to
    /\ mail.subject # parked[1].mail.subject

=============================================================================
